---- MODULE Spec2Model ----
(***************************************************************************)
(* A model of the thread-safe memory manager (memory_manager.c).           *)
(*                                                                         *)
(* The heap is the caller-supplied buffer, modelled word by word: one word *)
(* is 8 bytes (a pointer, a size_t, or the `unsigned free` with its        *)
(* padding).  Addresses, sizes and pointers are byte values, as in the     *)
(* code; every header the code creates lies on a word boundary because the *)
(* requests drawn here are multiples of the word size.  Block headers live *)
(* inside the buffer, so a header that was absorbed by a merge stays in    *)
(* memory as stale bytes until a memset or a new header overwrites it.     *)
(* All values stay far below 2^31, so no size_t arithmetic wraps.          *)
(***************************************************************************)
EXTENDS Integers, Sequences, FiniteSets, TLC

VARIABLES mem, linked_list, next_node, heap_size, allocate,
          lock, pc, held, last, status, script

vars == <<mem, linked_list, next_node, heap_size, allocate,
          lock, pc, held, last, status, script>>

----------------------------------------------------------------------------
(* Bounds of the model *)

\* the buffer is MINIMUM_HEAP_SIZE bytes plus this many words
ExtraWords == 1

\* the smaller request size, in words; the larger one is two words more
ReqWords == 38

\* number of worker threads
NThreads == 2

\* how many calls the single caller of SpecLaws makes
MaxCalls == 8

\* how many calls lay out the list validate is run on
BuildCalls == 2

\* how many words of the engine's state something other than the engine
\* overwrites before validate is run
MaxStray == 2

----------------------------------------------------------------------------
(* Program constants *)

NULL == 0

WordSize == 8

\* sizeof(struct node_t): next, prev, free (+ padding), size
HeaderSize == 32

OffNext == 0

OffPrev == 8

OffFree == 16

OffSize == 24

MINIMUM_FREE_BLOCK == 32

MINIMUM_HEAP_SIZE == 1024

\* address of memory_buffer
Base == 4096

\* MEMORY_SIZE handed to initialise
HeapSize == MINIMUM_HEAP_SIZE + WordSize * ExtraWords

FIRSTFIT == "FirstFit"
NEXTFIT == "NextFit"
BESTFIT == "BestFit"
WORSTFIT == "WorstFit"

Algorithms == {FIRSTFIT, NEXTFIT, BESTFIT, WORSTFIT}

\* what a caller may pass as `algorithm`: a known name, NULL, or anything else
AlgorithmArgs == Algorithms \cup {"NULL", "Unknown"}

Threads == 1 .. NThreads

NoThread == 0

\* request sizes in bytes
Sizes == {WordSize * ReqWords, WordSize * (ReqWords + 2)}

\* the value a caller writes into a payload it owns
FillValue == 85

NWords == HeapSize \div WordSize

\* the word addresses of the buffer
Addrs == {Base + WordSize * i : i \in 0 .. NWords - 1}

\* addresses at which a whole header lies inside the buffer, which is the
\* region handed to initialise
Valid(p) == p \in DOMAIN mem /\ p + HeaderSize <= Base + heap_size

\* a loop that has run this often is going round a cycle: no list here is
\* longer, each block taking a header and MINIMUM_FREE_BLOCK bytes or more
Fuel == HeapSize \div (HeaderSize + MINIMUM_FREE_BLOCK)

----------------------------------------------------------------------------
(* Common functions *)

create_node_ok(memory, size) == memory # NULL /\ size > HeaderSize

\* create_node that records the whole span as the size, header included
create_node_whole(m, memory, size) ==
  [m EXCEPT ![memory + OffNext] = NULL,
            ![memory + OffPrev] = NULL,
            ![memory + OffFree] = 1,
            ![memory + OffSize] = size]

create_node(m, memory, size) ==
  [m EXCEPT ![memory + OffNext] = NULL,
            ![memory + OffPrev] = NULL,
            ![memory + OffFree] = 1,
            ![memory + OffSize] = size - HeaderSize]

\* a memset that leaves the bytes as they are
memset_none(m, start, n) == m

memset(m, start, n) ==
  [a \in DOMAIN m |-> IF start <= a /\ a < start + n THEN 0 ELSE m[a]]

memset_ok(start, n) == n >= 0 /\ start + n <= Base + heap_size

\* a test that splits whenever a header fits in what is left
SplitTest_header_only(remaining) == remaining >= HeaderSize

\* the node is split when enough is left over for a header and a minimal block
SplitTest(remaining) == remaining >= HeaderSize + MINIMUM_FREE_BLOCK

\* p is a valid node whose size is at least bytes
allocate_node(m, p, bytes) ==
  LET remaining == m[p + OffSize] - bytes
      split == SplitTest(remaining)
      node == p + HeaderSize + bytes
      m1 == create_node(m, node, remaining)
      m2 == [m1 EXCEPT ![node + OffNext] = m1[p + OffNext]]
      m3 == [m2 EXCEPT ![node + OffPrev] = p]
      m4 == IF m3[node + OffNext] # NULL
            THEN [m3 EXCEPT ![m3[node + OffNext] + OffPrev] = node]
            ELSE m3
      m5 == [m4 EXCEPT ![p + OffNext] = node]
      m6 == [m5 EXCEPT ![p + OffSize] = bytes]
      m7 == IF split THEN m6 ELSE m
      m8 == [m7 EXCEPT ![p + OffFree] = 0]
      fault == \/ bytes <= 0
               \/ split /\ ~Valid(node)
               \/ split /\ ~create_node_ok(node, remaining)
               \/ split /\ m[p + OffNext] # NULL /\ ~Valid(m[p + OffNext])
               \/ ~memset_ok(p + HeaderSize, m8[p + OffSize])
  IN IF fault
     THEN [st |-> "abort", mem |-> m, split |-> FALSE]
     ELSE [st |-> "ok",
           mem |-> memset(m8, p + HeaderSize, m8[p + OffSize]),
           split |-> split]

\* merge_prev that adds the absorbed payload but not its header
merge_prev_short(m, p) ==
  LET m1 == [m EXCEPT ![m[p + OffPrev] + OffNext] = m[p + OffNext]]
      m2 == [m1 EXCEPT ![m1[p + OffPrev] + OffSize] =
                          m1[m1[p + OffPrev] + OffSize] + m1[p + OffSize]]
      m3 == IF m2[p + OffNext] # NULL
            THEN [m2 EXCEPT ![m2[p + OffNext] + OffPrev] = m2[p + OffPrev]]
            ELSE m2
      fault == \/ ~Valid(m[p + OffPrev])
               \/ ~Valid(m1[p + OffPrev])
               \/ m2[p + OffNext] # NULL /\ ~Valid(m2[p + OffNext])
  IN IF fault
     THEN [st |-> "abort", mem |-> m, p |-> p]
     ELSE [st |-> "ok", mem |-> m3, p |-> m3[p + OffPrev]]

\* p is a valid node and p->prev is not NULL
merge_prev(m, p) ==
  LET m1 == [m EXCEPT ![m[p + OffPrev] + OffNext] = m[p + OffNext]]
      m2 == [m1 EXCEPT ![m1[p + OffPrev] + OffSize] =
                          m1[m1[p + OffPrev] + OffSize] + HeaderSize + m1[p + OffSize]]
      m3 == IF m2[p + OffNext] # NULL
            THEN [m2 EXCEPT ![m2[p + OffNext] + OffPrev] = m2[p + OffPrev]]
            ELSE m2
      fault == \/ ~Valid(m[p + OffPrev])
               \/ ~Valid(m1[p + OffPrev])
               \/ m2[p + OffNext] # NULL /\ ~Valid(m2[p + OffNext])
  IN IF fault
     THEN [st |-> "abort", mem |-> m, p |-> p]
     ELSE [st |-> "ok", mem |-> m3, p |-> m3[p + OffPrev]]

\* merge_next that unlinks the next node but leaves the size as it was
merge_next_unsized(m, p) ==
  LET m2 == [m EXCEPT ![p + OffNext] = m[m[p + OffNext] + OffNext]]
      m3 == IF m2[p + OffNext] # NULL
            THEN [m2 EXCEPT ![m2[p + OffNext] + OffPrev] = p]
            ELSE m2
      fault == \/ ~Valid(m[p + OffNext])
               \/ m2[p + OffNext] # NULL /\ ~Valid(m2[p + OffNext])
  IN IF fault
     THEN [st |-> "abort", mem |-> m]
     ELSE [st |-> "ok", mem |-> m3]

\* p is a valid node and p->next is not NULL
merge_next(m, p) ==
  LET m1 == [m EXCEPT ![p + OffSize] =
                         m[p + OffSize] + HeaderSize + m[m[p + OffNext] + OffSize]]
      m2 == [m1 EXCEPT ![p + OffNext] = m1[m1[p + OffNext] + OffNext]]
      m3 == IF m2[p + OffNext] # NULL
            THEN [m2 EXCEPT ![m2[p + OffNext] + OffPrev] = p]
            ELSE m2
      fault == \/ ~Valid(m[p + OffNext])
               \/ ~Valid(m1[p + OffNext])
               \/ m2[p + OffNext] # NULL /\ ~Valid(m2[p + OffNext])
  IN IF fault
     THEN [st |-> "abort", mem |-> m]
     ELSE [st |-> "ok", mem |-> m3]

----------------------------------------------------------------------------
(* The list as the code walks it *)

RECURSIVE Chain(_, _, _)
\* the nodes reached from p over next pointers, until NULL or a pointer that
\* leaves the buffer
Chain(m, p, fuel) ==
  IF p = NULL \/ ~Valid(p) \/ fuel = 0
  THEN <<>>
  ELSE <<p>> \o Chain(m, m[p + OffNext], fuel - 1)

\* "ok" when the walk from p ends at NULL, "abort" when it leaves the buffer,
\* "hang" when it goes round a cycle
RECURSIVE WalkEnd(_, _, _)
WalkEnd(m, p, fuel) ==
  IF p = NULL THEN "ok"
  ELSE IF ~Valid(p) THEN "abort"
  ELSE IF fuel = 0 THEN "hang"
  ELSE WalkEnd(m, m[p + OffNext], fuel - 1)

Nodes == Chain(mem, linked_list, Fuel)

----------------------------------------------------------------------------
(* Allocation algorithms: the search each one makes.  A search ends        *)
(* "found" with the chosen node, "none", "abort" (a pointer that leaves    *)
(* the buffer is dereferenced) or "hang" (the loop never ends).            *)

\* a fit test that does not look at the free flag
Fits_any(m, p, bytes) == m[p + OffSize] >= bytes

Fits(m, p, bytes) == m[p + OffFree] # 0 /\ m[p + OffSize] >= bytes

RECURSIVE first_fit_scan(_, _, _, _)
first_fit_scan(m, p, bytes, fuel) ==
  IF p = NULL THEN [st |-> "none", node |-> NULL]
  ELSE IF ~Valid(p) THEN [st |-> "abort", node |-> NULL]
  ELSE IF fuel = 0 THEN [st |-> "hang", node |-> NULL]
  ELSE IF Fits(m, p, bytes) THEN [st |-> "found", node |-> p]
  ELSE first_fit_scan(m, m[p + OffNext], bytes, fuel - 1)

RECURSIVE next_fit_scan(_, _, _, _, _, _)
\* the do-while loop: p is examined, then advanced with wrap-around to head,
\* until it comes back to posn
next_fit_scan(m, p, posn, head, bytes, fuel) ==
  IF ~Valid(p) THEN [st |-> "abort", node |-> NULL]
  ELSE IF fuel = 0 THEN [st |-> "hang", node |-> NULL]
  ELSE IF Fits(m, p, bytes) THEN [st |-> "found", node |-> p]
  ELSE LET n == m[p + OffNext]
           q == IF n = NULL THEN head ELSE n
       IN IF q = posn
          THEN [st |-> "none", node |-> NULL]
          ELSE next_fit_scan(m, q, posn, head, bytes, fuel - 1)

\* a test that lets a later node of the same size replace the smallest
BestTest_or_equal(m, p, bytes, size) ==
  Fits(m, p, bytes) /\ m[p + OffSize] <= size

\* the test that makes a node the new smallest
BestTest(m, p, bytes, size) == Fits(m, p, bytes) /\ m[p + OffSize] < size

RECURSIVE best_fit_scan(_, _, _, _, _, _)
best_fit_scan(m, p, bytes, size, smallest, fuel) ==
  IF p = NULL
  THEN [st |-> IF smallest = NULL THEN "none" ELSE "found", node |-> smallest]
  ELSE IF ~Valid(p) THEN [st |-> "abort", node |-> NULL]
  ELSE IF fuel = 0 THEN [st |-> "hang", node |-> NULL]
  ELSE IF BestTest(m, p, bytes, size)
       THEN best_fit_scan(m, m[p + OffNext], bytes, m[p + OffSize], p, fuel - 1)
       ELSE best_fit_scan(m, m[p + OffNext], bytes, size, smallest, fuel - 1)

\* a test that lets a later node of the same size replace the largest
WorstTest_or_equal(m, p, size) == m[p + OffFree] # 0 /\ m[p + OffSize] >= size

\* the test that makes a node the new largest
WorstTest(m, p, size) == m[p + OffFree] # 0 /\ m[p + OffSize] > size

RECURSIVE worst_fit_scan(_, _, _, _, _)
worst_fit_scan(m, p, size, largest, fuel) ==
  IF p = NULL
  THEN [st |-> IF largest = NULL THEN "none" ELSE "found", node |-> largest]
  ELSE IF ~Valid(p) THEN [st |-> "abort", node |-> NULL]
  ELSE IF fuel = 0 THEN [st |-> "hang", node |-> NULL]
  ELSE IF WorstTest(m, p, size)
       THEN worst_fit_scan(m, m[p + OffNext], m[p + OffSize], p, fuel - 1)
       ELSE worst_fit_scan(m, m[p + OffNext], size, largest, fuel - 1)

\* a next-fit that always starts at the head
next_fit_start_head(cursor) == linked_list

\* where next-fit starts: the last used node, or the head
next_fit_start(cursor) == IF cursor = NULL THEN linked_list ELSE cursor

\* a first-fit that starts its scan at the cursor when one is set
first_fit_search_from_cursor(bytes) ==
  first_fit_scan(mem, next_fit_start(next_node), bytes, Fuel)

first_fit_search(bytes) == first_fit_scan(mem, linked_list, bytes, Fuel)

\* a next-fit whose walk ends at the last block instead of wrapping to head
next_fit_search_no_wrap(cursor, bytes) ==
  IF next_fit_start(cursor) = NULL
  THEN [st |-> "abort", node |-> NULL]
  ELSE next_fit_scan(mem, next_fit_start(cursor), next_fit_start(cursor),
                     next_fit_start(cursor), bytes, Fuel)

next_fit_search(cursor, bytes) ==
  IF next_fit_start(cursor) = NULL
  THEN [st |-> "abort", node |-> NULL]
  ELSE next_fit_scan(mem, next_fit_start(cursor), next_fit_start(cursor),
                     linked_list, bytes, Fuel)

best_fit_search(bytes) ==
  best_fit_scan(mem, linked_list, bytes, heap_size, NULL, Fuel)

\* worst-fit that starts from the request itself, so an exact fit is passed over
worst_fit_search_strict(bytes) ==
  worst_fit_scan(mem, linked_list, bytes, NULL, Fuel)

worst_fit_search(bytes) ==
  worst_fit_scan(mem, linked_list, bytes - 1, NULL, Fuel)

----------------------------------------------------------------------------
(* The allocation functions, from pthread_mutex_lock to the return: the    *)
(* memory and cursor they leave, the pointer they return and the path.     *)

\* what a function leaves behind when an assertion fires or it never returns
Stuck(st) ==
  [st |-> st, mem |-> mem, cur |-> next_node, ret |-> NULL, path |-> st,
   unl |-> FALSE]

\* the search found nothing: return NULL
NoneFound ==
  [st |-> "ok", mem |-> mem, cur |-> next_node, ret |-> NULL, path |-> "null",
   unl |-> TRUE]

\* serving a request with the cursor taken from p->next before the split
Serve_cursor_early(p, bytes, moveCursor) ==
  LET an == allocate_node(mem, p, bytes)
  IN IF an.st # "ok" THEN Stuck(an.st)
     ELSE [st |-> "ok",
           mem |-> an.mem,
           cur |-> IF moveCursor THEN mem[p + OffNext] ELSE next_node,
           ret |-> p + HeaderSize,
           path |-> IF an.split THEN "split" ELSE "whole",
           unl |-> TRUE]

\* the search found node p: allocate it and return p->memory
Serve(p, bytes, moveCursor) ==
  LET an == allocate_node(mem, p, bytes)
  IN IF an.st # "ok" THEN Stuck(an.st)
     ELSE [st |-> "ok",
           mem |-> an.mem,
           cur |-> IF moveCursor THEN an.mem[p + OffNext] ELSE next_node,
           ret |-> p + HeaderSize,
           path |-> IF an.split THEN "split" ELSE "whole",
           unl |-> TRUE]

Finish(search, bytes, moveCursor) ==
  IF search.st = "found" THEN Serve(search.node, bytes, moveCursor)
  ELSE IF search.st = "none" THEN NoneFound
  ELSE Stuck(search.st)

allocate_first_fit(bytes) ==
  IF bytes <= 0 \/ linked_list = NULL THEN Stuck("abort")
  ELSE Finish(first_fit_search(bytes), bytes, FALSE)

\* a next-fit that forgets where its walk started
allocate_next_fit_lost_posn(bytes) ==
  IF bytes <= 0 THEN Stuck("abort")
  ELSE IF next_fit_start(next_node) = NULL THEN Stuck("abort")
  ELSE Finish(next_fit_scan(mem, next_fit_start(next_node), NULL, linked_list,
                            bytes, Fuel),
              bytes, TRUE)

allocate_next_fit(bytes) ==
  IF bytes <= 0 THEN Stuck("abort")
  ELSE Finish(next_fit_search(next_node, bytes), bytes, TRUE)

allocate_best_fit(bytes) ==
  IF bytes <= 0 \/ linked_list = NULL THEN Stuck("abort")
  ELSE Finish(best_fit_search(bytes), bytes, FALSE)

allocate_worst_fit(bytes) ==
  IF bytes <= 0 \/ linked_list = NULL THEN Stuck("abort")
  ELSE Finish(worst_fit_search(bytes), bytes, FALSE)

\* the call through the function pointer installed by initialise
allocate_call(alg, bytes) ==
  CASE alg = FIRSTFIT -> allocate_first_fit(bytes)
    [] alg = NEXTFIT -> allocate_next_fit(bytes)
    [] alg = BESTFIT -> allocate_best_fit(bytes)
    [] alg = WORSTFIT -> allocate_worst_fit(bytes)
    [] OTHER -> Stuck("abort")

----------------------------------------------------------------------------
(* deallocate, from pthread_mutex_lock to the return *)

\* deallocate(NULL): unlock and return
ReleaseNull ==
  [st |-> "ok", mem |-> mem, cur |-> next_node, ret |-> NULL, path |-> "null",
   unl |-> TRUE]

\* the rejected release returning with the mutex still held
AlreadyFree_locked ==
  [st |-> "ok", mem |-> mem, cur |-> next_node, ret |-> NULL,
   path |-> "already_free", unl |-> FALSE]

\* the header reads as free: report, unlock and return
AlreadyFree ==
  [st |-> "ok", mem |-> mem, cur |-> next_node, ret |-> NULL,
   path |-> "already_free", unl |-> TRUE]

\* a first stage that merges into the previous node whether it is free or not
release_prev_always(m, p) ==
  LET pv == m[p + OffPrev]
      mp == merge_prev(m, p)
  IN IF pv # NULL /\ ~Valid(pv) THEN [st |-> "abort", mem |-> m, cur |-> next_node, p |-> p, merged |-> FALSE]
     ELSE IF pv = NULL THEN [st |-> "ok", mem |-> m, cur |-> next_node, p |-> p, merged |-> FALSE]
     ELSE [st |-> mp.st,
           mem |-> mp.mem,
           cur |-> IF next_node = p THEN m[p + OffNext] ELSE next_node,
           p |-> mp.p,
           merged |-> TRUE]

\* first stage: the node at p has been marked free in m; merge it into a free
\* previous node.  Gives the memory, the cursor and the node merging goes on with.
release_prev(m, p) ==
  LET pv == m[p + OffPrev]
      doPrev == pv # NULL /\ m[pv + OffFree] # 0
      mp == merge_prev(m, p)
  IN IF pv # NULL /\ ~Valid(pv) THEN [st |-> "abort", mem |-> m, cur |-> next_node, p |-> p, merged |-> FALSE]
     ELSE IF ~doPrev THEN [st |-> "ok", mem |-> m, cur |-> next_node, p |-> p, merged |-> FALSE]
     ELSE [st |-> mp.st,
           mem |-> mp.mem,
           cur |-> IF next_node = p THEN m[p + OffNext] ELSE next_node,
           p |-> mp.p,
           merged |-> TRUE]

\* a second stage that never merges
release_next_never(m, cur, p) ==
  [st |-> "ok", mem |-> m, cur |-> cur, merged |-> FALSE]

\* second stage: merge a free next node into p
release_next(m, cur, p) ==
  LET nx == m[p + OffNext]
      doNext == nx # NULL /\ m[nx + OffFree] # 0
      mn == merge_next(m, p)
  IN IF ~Valid(p) \/ (nx # NULL /\ ~Valid(nx)) THEN [st |-> "abort", mem |-> m, cur |-> cur, merged |-> FALSE]
     ELSE IF ~doNext THEN [st |-> "ok", mem |-> m, cur |-> cur, merged |-> FALSE]
     ELSE [st |-> mn.st,
           mem |-> mn.mem,
           cur |-> IF cur = nx THEN m[nx + OffNext] ELSE cur,
           merged |-> TRUE]

\* a release that coalesces and leaves the cursor where it was
Release_cursor_kept(p) ==
  LET m1 == [mem EXCEPT ![p + OffFree] = 1]
      s1 == release_prev(m1, p)
      s2 == release_next(s1.mem, s1.cur, s1.p)
  IN IF s1.st # "ok" THEN Stuck(s1.st)
     ELSE IF s2.st # "ok" THEN Stuck(s2.st)
     ELSE [st |-> "ok", mem |-> s2.mem, cur |-> next_node, ret |-> NULL,
           path |-> CASE s1.merged /\ s2.merged -> "merge_both"
                      [] s1.merged /\ ~s2.merged -> "merge_prev"
                      [] ~s1.merged /\ s2.merged -> "merge_next"
                      [] OTHER -> "no_merge",
           unl |-> TRUE]

\* the node at p is in use: make it free and coalesce
Release(p) ==
  LET m1 == [mem EXCEPT ![p + OffFree] = 1]
      s1 == release_prev(m1, p)
      s2 == release_next(s1.mem, s1.cur, s1.p)
  IN IF s1.st # "ok" THEN Stuck(s1.st)
     ELSE IF s2.st # "ok" THEN Stuck(s2.st)
     ELSE [st |-> "ok", mem |-> s2.mem, cur |-> s2.cur, ret |-> NULL,
           path |-> CASE s1.merged /\ s2.merged -> "merge_both"
                      [] s1.merged /\ ~s2.merged -> "merge_prev"
                      [] ~s1.merged /\ s2.merged -> "merge_next"
                      [] OTHER -> "no_merge",
           unl |-> TRUE]

\* the header recovered from the pointer reads as free
HeaderFree(p) == mem[p + OffFree] # 0

\* a deallocate that marks the block free and merges nothing
deallocate_no_coalesce(memory) ==
  IF linked_list = NULL THEN Stuck("abort")
  ELSE IF memory = NULL THEN ReleaseNull
  ELSE IF ~(memory >= linked_list /\ memory < linked_list + heap_size)
       THEN Stuck("abort")
  ELSE IF ~Valid(memory - HeaderSize) THEN Stuck("abort")
  ELSE IF HeaderFree(memory - HeaderSize) THEN AlreadyFree
  ELSE [st |-> "ok",
        mem |-> [mem EXCEPT ![memory - HeaderSize + OffFree] = 1],
        cur |-> next_node, ret |-> NULL, path |-> "no_merge", unl |-> TRUE]

deallocate(memory) ==
  IF linked_list = NULL THEN Stuck("abort")
  ELSE IF memory = NULL THEN ReleaseNull
  ELSE IF ~(memory >= linked_list /\ memory < linked_list + heap_size)
       THEN Stuck("abort")
  ELSE IF ~Valid(memory - HeaderSize) THEN Stuck("abort")
  ELSE IF HeaderFree(memory - HeaderSize) THEN AlreadyFree
  ELSE Release(memory - HeaderSize)

----------------------------------------------------------------------------
(* Validation and printing *)

\* a validate_node that looks at next and size only
validate_node_next_only(m, p) ==
  /\ m[p + OffNext] = NULL
     \/ (Valid(m[p + OffNext]) /\ m[m[p + OffNext] + OffPrev] = p)
  /\ m[p + OffSize] > 0

validate_node(m, p) ==
  /\ m[p + OffNext] = NULL
     \/ (Valid(m[p + OffNext]) /\ m[m[p + OffNext] + OffPrev] = p)
  /\ m[p + OffPrev] = NULL
     \/ (Valid(m[p + OffPrev]) /\ m[m[p + OffPrev] + OffNext] = p)
  /\ m[p + OffSize] > 0

RECURSIVE validate_scan(_, _, _, _)
validate_scan(m, p, counter, fuel) ==
  IF p = NULL THEN (IF counter = heap_size THEN "ok" ELSE "abort")
  ELSE IF ~Valid(p) THEN "abort"
  ELSE IF fuel = 0 THEN "hang"
  ELSE IF ~validate_node(m, p) THEN "abort"
  ELSE validate_scan(m, m[p + OffNext], counter + m[p + OffSize] + HeaderSize,
                     fuel - 1)

validate == validate_scan(mem, linked_list, 0, Fuel)

print_all_nodes == WalkEnd(mem, linked_list, Fuel)

----------------------------------------------------------------------------
(* State *)

Idle == [op |-> "idle", arg |-> NULL]

NoOp ==
  [op |-> "none", arg |-> NULL, ret |-> NULL, path |-> "none", moved |-> FALSE]

\* a caller that follows no script
NoScript == [todo |-> <<>>, blocks |-> <<>>]

\* static storage before initialise: a zeroed buffer at the addresses given,
\* no list, no algorithm; the caller is about to run the calls of todo
InitOver(addrs, todo) ==
  /\ mem = [a \in addrs |-> 0]
  /\ linked_list = NULL
  /\ next_node = NULL
  /\ heap_size = 0
  /\ allocate = "NULL"
  /\ lock = NoThread
  /\ pc = [t \in Threads |-> Idle]
  /\ held = [t \in Threads |-> {}]
  /\ last = NoOp
  /\ status = "run"
  /\ script = [todo |-> todo, blocks |-> <<>>]

Init == InitOver(Addrs, <<>>)

\* the payload pointers the callers hold
LiveRefs == {h[1] : h \in UNION {held[t] : t \in Threads}}

Quiescent == \A t \in Threads : pc[t] = Idle

\* the algorithm the name selects; "exit" for an unknown name
SelectAlgorithm(algorithm) ==
  IF algorithm = "NULL" \/ algorithm = FIRSTFIT THEN FIRSTFIT
  ELSE IF algorithm = NEXTFIT THEN NEXTFIT
  ELSE IF algorithm = BESTFIT THEN BESTFIT
  ELSE IF algorithm = WORSTFIT THEN WORSTFIT
  ELSE "exit"

----------------------------------------------------------------------------
(* Operations *)

\* initialise(memory_buffer, size, algorithm), called once by the main thread
\* on the fresh buffer, before any worker runs; it takes no lock
InitialiseRegion(size, algorithm) ==
  /\ status = "run"
  /\ linked_list = NULL
  /\ Quiescent
  /\ LiveRefs = {}
  /\ Base # NULL /\ size > MINIMUM_HEAP_SIZE /\ create_node_ok(Base, size)
  /\ mem' = create_node(mem, Base, size)
  /\ heap_size' = size
  /\ linked_list' = Base
  /\ next_node' = NULL
  /\ IF SelectAlgorithm(algorithm) = "exit"
     THEN status' = "exit" /\ UNCHANGED allocate
     ELSE allocate' = SelectAlgorithm(algorithm) /\ UNCHANGED status
  /\ last' = [op |-> "initialise", arg |-> NULL, ret |-> NULL,
              path |-> algorithm, moved |-> FALSE]
  /\ UNCHANGED <<lock, pc, held, script>>

Initialise(algorithm) == InitialiseRegion(HeapSize, algorithm)

\* entering an operation without waiting for the mutex or taking it
Lock_skip(t, op, arg) ==
  /\ lock' = lock
  /\ pc' = [pc EXCEPT ![t] = [op |-> op, arg |-> arg]]

\* pthread_mutex_lock at the start of a public operation: the thread waits
\* until the mutex is free and takes it
Lock(t, op, arg) ==
  /\ lock = NoThread
  /\ lock' = t
  /\ pc' = [pc EXCEPT ![t] = [op |-> op, arg |-> arg]]

\* an idle worker calls a public operation of the initialised engine
Call(t, op, arg) ==
  /\ status = "run"
  /\ allocate \in Algorithms
  /\ pc[t] = Idle
  /\ Lock(t, op, arg)
  /\ UNCHANGED <<mem, linked_list, next_node, heap_size, allocate, held, last,
                 status, script>>

CallAllocate(t) == \E n \in Sizes : Call(t, "allocate", n)

\* a worker releases a block it holds, or NULL
CallDeallocate(t) ==
  \E r \in {h[1] : h \in held[t]} \cup {NULL} : Call(t, "deallocate", r)

CallValidate(t) == Call(t, "validate", NULL)

CallPrint(t) == Call(t, "print", NULL)

\* the rest of an operation of thread t, which ended as r says: it returned
\* (having unlocked or not), an assertion stopped the process, or it never
\* returns.  The caller goes on at pcNow with the pointers heldNow.
Complete(t, r, heldNow, pcNow) ==
  /\ status = "run"
  /\ IF r.st = "ok"
     THEN /\ mem' = r.mem
          /\ next_node' = r.cur
          /\ lock' = IF r.unl THEN NoThread ELSE lock
          /\ pc' = [pc EXCEPT ![t] = pcNow]
          /\ held' = [held EXCEPT ![t] = heldNow]
          /\ last' = IF pc[t].op \in {"allocate", "deallocate", "deallocate_again"}
                     THEN [op |-> pc[t].op, arg |-> pc[t].arg, ret |-> r.ret,
                           path |-> r.path,
                           moved |-> pc[t].op # "allocate" /\ r.cur # next_node]
                     ELSE last
          /\ UNCHANGED status
     ELSE /\ IF r.st = "abort"
             THEN status' = "abort" /\ UNCHANGED pc
             ELSE pc' = [pc EXCEPT ![t] = [op |-> "hung", arg |-> NULL]]
                  /\ UNCHANGED status
          /\ UNCHANGED <<mem, next_node, lock, held, last>>
  /\ UNCHANGED <<linked_list, heap_size, allocate>>

\* allocate returns; the caller stores the pointer and, if it got a block,
\* goes on to use it
AllocateReturn(t) ==
  /\ pc[t].op = "allocate"
  /\ LET r == allocate_call(allocate, pc[t].arg)
     IN Complete(t, r,
                 IF r.ret # NULL THEN held[t] \cup {<<r.ret, pc[t].arg>>}
                 ELSE held[t],
                 IF r.ret # NULL THEN [op |-> "use", arg |-> r.ret] ELSE Idle)
  /\ UNCHANGED script

\* deallocate returns and the caller clears its pointer
DeallocateReturn(t) ==
  /\ pc[t].op = "deallocate"
  /\ Complete(t, deallocate(pc[t].arg), {h \in held[t] : h[1] # pc[t].arg}, Idle)
  /\ UNCHANGED script

\* deallocate returns and the caller keeps the pointer it has just released
DeallocateReturnKeep(t) ==
  /\ pc[t].op = "deallocate"
  /\ pc[t].arg # NULL
  /\ Complete(t, deallocate(pc[t].arg), {h \in held[t] : h[1] # pc[t].arg},
              [op |-> "kept", arg |-> pc[t].arg])
  /\ UNCHANGED script

\* the caller releases the pointer it kept a second time, while nobody holds it
CallDeallocateAgain(t) ==
  /\ status = "run"
  /\ pc[t].op = "kept"
  /\ pc[t].arg \notin LiveRefs
  /\ Lock(t, "deallocate_again", pc[t].arg)
  /\ UNCHANGED <<mem, linked_list, next_node, heap_size, allocate, held, last,
                 status, script>>

\* the second deallocate returns and the thread ends
DeallocateAgainReturn(t) ==
  /\ pc[t].op = "deallocate_again"
  /\ Complete(t, deallocate(pc[t].arg), held[t], [op |-> "done", arg |-> NULL])
  /\ UNCHANGED script

ValidateReturn(t) ==
  /\ pc[t].op = "validate"
  /\ Complete(t, [st |-> validate, mem |-> mem, cur |-> next_node, ret |-> NULL,
                  path |-> "checked", unl |-> TRUE],
              held[t], Idle)
  /\ UNCHANGED script

PrintReturn(t) ==
  /\ pc[t].op = "print"
  /\ Complete(t, [st |-> print_all_nodes, mem |-> mem, cur |-> next_node,
                  ret |-> NULL, path |-> "printed", unl |-> TRUE],
              held[t], Idle)
  /\ UNCHANGED script

\* the caller uses the block it has just been given: it fills the bytes it
\* asked for
WritePayload(t) ==
  /\ status = "run"
  /\ pc[t].op = "use"
  /\ \E h \in held[t] :
       /\ h[1] = pc[t].arg
       /\ mem' = [a \in DOMAIN mem |->
                    IF h[1] <= a /\ a < h[1] + h[2] THEN FillValue ELSE mem[a]]
  /\ pc' = [pc EXCEPT ![t] = Idle]
  /\ UNCHANGED <<linked_list, next_node, heap_size, allocate, lock, held,
                 last, status, script>>

Next ==
  \/ \E algorithm \in AlgorithmArgs : Initialise(algorithm)
  \/ \E t \in Threads : CallAllocate(t)
  \/ \E t \in Threads : AllocateReturn(t)
  \/ \E t \in Threads : CallDeallocate(t)
  \/ \E t \in Threads : DeallocateReturn(t)
  \/ \E t \in Threads : CallValidate(t)
  \/ \E t \in Threads : ValidateReturn(t)
  \/ \E t \in Threads : CallPrint(t)
  \/ \E t \in Threads : PrintReturn(t)
  \/ \E t \in Threads : WritePayload(t)

\* callers that keep the contract: every release is of a block the caller holds
Spec == Init /\ [][Next]_vars

NextMisuse ==
  \/ Next
  \/ \E t \in Threads : DeallocateReturnKeep(t)
  \/ \E t \in Threads : CallDeallocateAgain(t)
  \/ \E t \in Threads : DeallocateAgainReturn(t)

\* callers that may also release a pointer a second time, as their last call
SpecMisuse == Init /\ [][NextMisuse]_vars

----------------------------------------------------------------------------
(* Scenarios: one thread makes the calls of a script in order, keeping the *)
(* pointers it is given in blocks[], as the test functions do.             *)

\* the size of the test's memory_buffer
MEMORY_SIZE == 10000

\* the thread that runs a scenario
MainThread == 1

AllocOp(n) == [op |-> "allocate", arg |-> n]

\* release the pointer the k-th allocation of the script returned
FreeOp(k) == [op |-> "deallocate", arg |-> k]

\* the next call of the script
ScriptCall(t) ==
  /\ status = "run"
  /\ allocate \in Algorithms
  /\ pc[t] = Idle
  /\ script.todo # <<>>
  /\ LET o == Head(script.todo)
     IN Lock(t, o.op, IF o.op = "allocate" THEN o.arg ELSE script.blocks[o.arg])
  /\ script' = [script EXCEPT !.todo = Tail(@)]
  /\ UNCHANGED <<mem, linked_list, next_node, heap_size, allocate, held, last,
                 status>>

\* allocate returns and the pointer is stored in the next slot of blocks[]
ScriptAllocateReturn(t) ==
  /\ pc[t].op = "allocate"
  /\ LET r == allocate_call(allocate, pc[t].arg)
     IN /\ Complete(t, r,
                    IF r.ret # NULL THEN held[t] \cup {<<r.ret, pc[t].arg>>}
                    ELSE held[t],
                    IF r.ret # NULL THEN [op |-> "use", arg |-> r.ret] ELSE Idle)
        /\ script' = [script EXCEPT !.blocks = Append(@, r.ret)]

\* what the scenario thread does once the engine is initialised; validate
\* and print_all_nodes may be called between any two calls of the script
RunScript ==
  \/ ScriptCall(MainThread)
  \/ ScriptAllocateReturn(MainThread)
  \/ DeallocateReturn(MainThread)
  \/ WritePayload(MainThread)
  \/ CallValidate(MainThread)
  \/ ValidateReturn(MainThread)
  \/ CallPrint(MainThread)
  \/ PrintReturn(MainThread)

\* scenario S3: three blocks of 100, the middle one released, a fourth asked for
S3Script ==
  <<AllocOp(100), AllocOp(100), AllocOp(100), FreeOp(2), AllocOp(100),
    FreeOp(1), FreeOp(3)>>

\* the addresses of memory_buffer that are multiples of grain, which must
\* divide every block address of the scenario
BufferAddrs(grain) == {Base + grain * i : i \in 0 .. (MEMORY_SIZE \div grain) - 1}

AddrsS3 == BufferAddrs(4)

InitS3 == InitOver(AddrsS3, S3Script)

NextS3 ==
  \/ \E algorithm \in AlgorithmArgs : InitialiseRegion(MEMORY_SIZE, algorithm)
  \/ RunScript

SpecS3 == InitS3 /\ [][NextS3]_vars

\* policy law 6: the calls that lay out [A free 100][B busy][C free 200]
\* [D busy][E free 50] on the buffer, B and D taking the rest, and under
\* next-fit leave the cursor on C; then two requests of 40
Law6Script ==
  <<AllocOp(100), AllocOp(4744), AllocOp(200), AllocOp(4746), FreeOp(2),
    AllocOp(4744), FreeOp(1), FreeOp(3), AllocOp(40), AllocOp(40)>>

AddrsLaw6 == BufferAddrs(2)

InitLaw6 == InitOver(AddrsLaw6, Law6Script)

NextLaw6 ==
  \/ \E algorithm \in AlgorithmArgs : InitialiseRegion(MEMORY_SIZE, algorithm)
  \/ RunScript

SpecLaw6 == InitLaw6 /\ [][NextLaw6]_vars

----------------------------------------------------------------------------
(* One caller, smaller requests and a bounded number of calls, so that the *)
(* list grows long: several free blocks, of equal and of different sizes,  *)
(* between busy ones, and the cursor in the middle of the list.            *)

\* request sizes in bytes: three blocks of 312 fill the region exactly, and a
\* block of 40 splits a free block of 312 or takes one of 96 whole
LawSizes == {40, 312}

\* a call the caller chooses when it makes it
AnyOp == [op |-> "any", arg |-> NULL]

\* the caller makes one more call of its choice: allocate, or deallocate of a
\* block it holds
AnyCall(t) ==
  /\ status = "run"
  /\ allocate \in Algorithms
  /\ pc[t] = Idle
  /\ script.todo # <<>>
  /\ Head(script.todo) = AnyOp
  /\ \E c \in {AllocOp(n) : n \in LawSizes} \cup
              {[op |-> "deallocate", arg |-> h[1]] : h \in held[t]} :
        Lock(t, c.op, c.arg)
  /\ script' = [script EXCEPT !.todo = Tail(@)]
  /\ UNCHANGED <<mem, linked_list, next_node, heap_size, allocate, held, last,
                 status>>

InitLaws == InitOver(Addrs, [i \in 1 .. MaxCalls |-> AnyOp])

NextLaws ==
  \/ \E algorithm \in Algorithms : Initialise(algorithm)
  \/ AnyCall(MainThread)
  \/ AllocateReturn(MainThread)
  \/ DeallocateReturn(MainThread)
  \/ WritePayload(MainThread)

SpecLaws == InitLaws /\ [][NextLaws]_vars

----------------------------------------------------------------------------
(* validate() on a list that has gone wrong: after a few calls, words of   *)
(* the headers or the cursor are overwritten from outside the engine (a    *)
(* caller writing beyond its block, say), and validate is called.          *)

\* one overwritten word
StrayOp == [op |-> "stray", arg |-> NULL]

\* the header words a stray write may hit, each with the values it may leave:
\* a link cut or bent to the head or to the last block, the flag flipped, the
\* size zero or a word more or less
StrayHeaderWrites ==
  UNION {
    {<<Nodes[i] + OffNext, NULL>>, <<Nodes[i] + OffNext, linked_list>>,
     <<Nodes[i] + OffPrev, NULL>>, <<Nodes[i] + OffPrev, Nodes[Len(Nodes)]>>,
     <<Nodes[i] + OffFree, IF mem[Nodes[i] + OffFree] = 0 THEN 1 ELSE 0>>,
     <<Nodes[i] + OffSize, 0>>,
     <<Nodes[i] + OffSize, mem[Nodes[i] + OffSize] - WordSize>>,
     <<Nodes[i] + OffSize, mem[Nodes[i] + OffSize] + WordSize>>}
    : i \in 1 .. Len(Nodes)}

\* the values a stray write may leave in next_node: unset, a block, or an
\* address inside the first payload
StrayCursors ==
  {NULL, linked_list + HeaderSize} \cup {Nodes[i] : i \in 1 .. Len(Nodes)}

\* a word of a header, or next_node, is overwritten while no call is in flight
StrayWrite(t) ==
  /\ status = "run"
  /\ linked_list # NULL
  /\ pc[t] = Idle
  /\ script.todo # <<>>
  /\ Head(script.todo) = StrayOp
  /\ \/ \E w \in StrayHeaderWrites :
          /\ mem' = [mem EXCEPT ![w[1]] = w[2]]
          /\ UNCHANGED next_node
     \/ \E c \in StrayCursors :
          /\ next_node' = c
          /\ UNCHANGED mem
  /\ script' = [script EXCEPT !.todo = Tail(@)]
  /\ UNCHANGED <<linked_list, heap_size, allocate, lock, pc, held, last, status>>

InitValidate ==
  InitOver(Addrs, [i \in 1 .. BuildCalls |-> AnyOp] \o
                  [i \in 1 .. MaxStray |-> StrayOp])

NextValidate ==
  \/ Initialise(NEXTFIT)
  \/ AnyCall(MainThread)
  \/ AllocateReturn(MainThread)
  \/ DeallocateReturn(MainThread)
  \/ WritePayload(MainThread)
  \/ StrayWrite(MainThread)
  \/ CallValidate(MainThread)
  \/ ValidateReturn(MainThread)

SpecValidate == InitValidate /\ [][NextValidate]_vars

----------------------------------------------------------------------------
(* What the properties speak of *)

SizeOf(p) == mem[p + OffSize]

IsFree(p) == mem[p + OffFree] # 0

Header(p) ==
  <<mem[p + OffNext], mem[p + OffPrev], mem[p + OffFree], mem[p + OffSize]>>

\* the list: its nodes in order, each with its header
ListState == [i \in 1 .. Len(Nodes) |-> <<Nodes[i], Header(Nodes[i])>>]

\* everything the engine shares between threads
EngineState == <<linked_list, next_node, heap_size, allocate, ListState>>

RECURSIVE SumBlocks(_, _)
SumBlocks(ns, i) ==
  IF i > Len(ns) THEN 0 ELSE HeaderSize + SizeOf(ns[i]) + SumBlocks(ns, i + 1)

Initialised == linked_list # NULL

\* no thread is inside a public operation
NoOperationInFlight ==
  \A t \in Threads : pc[t].op \in {"idle", "use", "kept", "done"}

OneFreeBlock ==
  /\ Nodes = <<Base>>
  /\ linked_list = Base
  /\ IsFree(Base)
  /\ SizeOf(Base) = heap_size - HeaderSize

SomeFreeFits(n) == \E i \in 1 .. Len(Nodes) : IsFree(Nodes[i]) /\ SizeOf(Nodes[i]) >= n

\* the bytes [a, a + n) and [b, b + k) have none in common
Apart(a, n, b, k) == a + n <= b \/ b + k <= a

\* the free block of the list the address lies in, if any
InFreeBlock(r) ==
  \E i \in 1 .. Len(Nodes) :
     /\ IsFree(Nodes[i])
     /\ Nodes[i] <= r
     /\ r < Nodes[i] + HeaderSize + SizeOf(Nodes[i])

----------------------------------------------------------------------------
(* C1: after initialise and any allocations and releases of live blocks,   *)
(* the list passes validate(): sizes are positive, next and prev agree,    *)
(* each block ends where its successor starts, and headers plus sizes sum  *)
(* to the heap size.                                                       *)
C1_ListValid ==
  Initialised =>
    /\ validate = "ok"
    /\ WalkEnd(mem, linked_list, Fuel) = "ok"
    /\ \A i \in 1 .. Len(Nodes) :
         LET b == Nodes[i]
         IN /\ SizeOf(b) > 0
            /\ mem[b + OffNext] = NULL \/ mem[mem[b + OffNext] + OffPrev] = b
            /\ mem[b + OffPrev] = NULL \/ mem[mem[b + OffPrev] + OffNext] = b
            /\ i < Len(Nodes) => b + HeaderSize + SizeOf(b) = Nodes[i + 1]
            /\ i < Len(Nodes) => mem[b + OffNext] = Nodes[i + 1]
            /\ i = Len(Nodes) => mem[b + OffNext] = NULL
    /\ SumBlocks(Nodes, 1) = heap_size

\* a release has merged a block into its free predecessor while another block
\* is still out
C1_Witness ==
  /\ last.op = "deallocate"
  /\ last.path = "merge_prev"
  /\ Len(Nodes) = 2
  /\ LiveRefs # {}

(* C2: whenever no public operation is in flight, no two blocks adjacent   *)
(* in the list are both free.                                              *)
C2_NoAdjacentFree ==
  (Initialised /\ NoOperationInFlight) =>
    \A i \in 1 .. Len(Nodes) - 1 : ~(IsFree(Nodes[i]) /\ IsFree(Nodes[i + 1]))

\* a release has merged with the free block after it, next to a busy block
C2_Witness ==
  /\ NoOperationInFlight
  /\ last.op = "deallocate"
  /\ last.path = "merge_next"
  /\ Len(Nodes) = 2
  /\ ~IsFree(Nodes[1])

(* C3: the n bytes of every block handed out lie inside the region and     *)
(* overlap neither the bytes of another live allocation nor any header of  *)
(* the list.                                                               *)
C3_PayloadDisjoint ==
  \A t \in Threads : \A h \in held[t] :
     /\ linked_list + HeaderSize <= h[1]
     /\ h[1] + h[2] <= linked_list + heap_size
     /\ \A u \in Threads : \A g \in held[u] :
          (u # t \/ g # h) => Apart(h[1], h[2], g[1], g[2])
     /\ \A i \in 1 .. Len(Nodes) : Apart(h[1], h[2], Nodes[i], HeaderSize)

\* allocate has just returned a third block while both threads hold blocks
C3_Witness ==
  /\ \E t \in Threads : pc[t].op = "use" /\ last.ret = pc[t].arg
  /\ last.op = "allocate"
  /\ \A t \in Threads : held[t] # {}
  /\ Cardinality(LiveRefs) = 3

(* C4: whenever no allocation is live, the list is one free block at the   *)
(* region base of size heap size minus header size.                        *)
C4_AllReleased == (Initialised /\ LiveRefs = {}) => OneFreeBlock

\* the last block out has been released, after the list had been split
C4_Witness ==
  /\ LiveRefs = {}
  /\ last.op = "deallocate"
  /\ last.path \in {"merge_both", "merge_prev", "merge_next"}
  /\ allocate = NEXTFIT

(* C5: with threads interleaving allocate, deallocate (of blocks they      *)
(* hold) and validate, no assertion fires and no operation hangs, and once *)
(* all threads are done and everything is released one free block is left. *)
C5_Concurrent ==
  /\ status # "abort"
  /\ \A t \in Threads : pc[t].op # "hung"
  /\ (Initialised /\ Quiescent /\ LiveRefs = {}) => OneFreeBlock

\* one thread is inside validate while every thread holds a block
C5_Witness ==
  /\ \E t \in Threads : pc[t].op = "validate" /\ lock = t
  /\ \A t \in Threads : held[t] # {}

\* the operations that run under the mutex
LockedOps == {"allocate", "deallocate", "deallocate_again", "validate", "print"}

InCriticalSection == {t \in Threads : pc[t].op \in LockedOps}

(* C6, as claimed: every write to the shared engine state (head, cursor,   *)
(* heap size, installed algorithm, block headers) happens while the writer *)
(* holds the mutex.                                                        *)
C6_AllWritesLocked == [][EngineState' # EngineState => lock # NoThread]_vars

(* C6, amended: every write to the head, the cursor or a block header made *)
(* by allocate or deallocate happens while the writing thread holds the    *)
(* mutex, and at most one locked operation is inside its critical section  *)
(* at a time; initialise writes the head, the cursor, the heap size, the   *)
(* algorithm and the first header without taking the mutex.                *)
C6_WritesLockedButInitialise ==
  /\ [](Cardinality(InCriticalSection) <= 1)
  /\ [][EngineState' # EngineState =>
          \/ ~Initialised /\ lock = NoThread
          \/ /\ lock \in Threads
             /\ pc[lock].op \in {"allocate", "deallocate", "deallocate_again"}
             /\ pc'[lock] # pc[lock]
             /\ heap_size' = heap_size /\ allocate' = allocate]_vars

\* an allocation has split a block under the mutex while the other thread was
\* using a block of its own
C6_Witness ==
  /\ last.op = "allocate"
  /\ last.path = "split"
  /\ \A t \in Threads : held[t] # {}
  /\ lock = NoThread

(* C7: every public operation takes the mutex once and gives it back on    *)
(* every return path, the NULL returns and the rejected second release     *)
(* included: a thread inside an operation holds the mutex, the mutex is    *)
(* held only by a thread inside an operation, and it is free whenever no   *)
(* operation is in flight.                                                 *)
C7_LockDiscipline ==
  /\ \A t \in Threads : pc[t].op \in LockedOps => lock = t
  /\ lock # NoThread => pc[lock].op \in LockedOps \cup {"hung"}
  /\ NoOperationInFlight => lock = NoThread

\* a second release has been rejected and the mutex is free again
C7_Witness ==
  /\ last.op = "deallocate_again"
  /\ last.path = "already_free"
  /\ \E t \in Threads : pc[t].op = "done"
  /\ lock = NoThread

(* C8: in every state in which a call can start (the mutex is free),       *)
(* allocate(n) returns NULL exactly when no free block of the list has     *)
(* size >= n, under each of the four algorithms and, for next-fit, from    *)
(* every cursor position.                                                  *)
C8_NullIffNoFit ==
  (Initialised /\ lock = NoThread) =>
    \A n \in Sizes :
       /\ \A alg \in Algorithms :
            LET r == allocate_call(alg, n)
            IN r.st = "ok" /\ (r.ret = NULL <=> ~SomeFreeFits(n))
       /\ \A i \in 1 .. Len(Nodes) :
            next_fit_search(Nodes[i], n).st = "none" <=> ~SomeFreeFits(n)

\* allocate has returned NULL although a free block, too small, is on the list
C8_Witness ==
  /\ last.op = "allocate"
  /\ last.ret = NULL
  /\ \E i \in 1 .. Len(Nodes) : IsFree(Nodes[i])
  /\ \E t \in Threads : pc[t].op = "allocate" /\ SomeFreeFits(pc[t].arg)

(* C9: deallocate called with a pointer whose block is already free (a     *)
(* second release, also after the block was absorbed by a neighbour or     *)
(* other operations ran in between) returns without changing any block     *)
(* header, the list or the cursor.                                         *)
C9_SecondReleaseChangesNothing ==
  [][\A t \in Threads :
       (/\ pc[t].op = "deallocate_again"
        /\ pc[t].arg \notin LiveRefs
        /\ InFreeBlock(pc[t].arg)
        /\ pc'[t].op = "done")
       => (linked_list' = linked_list /\ next_node' = next_node
           /\ ListState' = ListState)]_vars

\* the words of the bytes a caller asked for
PayloadWords(h) == {a \in Addrs : h[1] <= a /\ a < h[1] + h[2]}

(* C10: from the return of allocate until the caller releases the block,   *)
(* no operation of the engine changes the block's busy flag or size or     *)
(* writes its payload.                                                     *)
C10_LiveBlockUntouched ==
  [][\A t \in Threads : \A h \in held[t] :
       (h \in held'[t] /\ ~(pc[t].op = "use" /\ pc[t].arg = h[1] /\ pc'[t] = Idle))
       => /\ mem'[h[1] - HeaderSize + OffFree] = 0
          /\ mem[h[1] - HeaderSize + OffFree] = 0
          /\ mem'[h[1] - HeaderSize + OffSize] = mem[h[1] - HeaderSize + OffSize]
          /\ \A a \in PayloadWords(h) : mem'[a] = mem[a]]_vars

\* a block filled by its owner has the caller's bytes after a neighbouring
\* release was merged and another allocation was split off
C10_Witness ==
  /\ \E t \in Threads : \E h \in held[t] :
        /\ pc[t] = Idle
        /\ \A a \in PayloadWords(h) : mem[a] = FillValue
        /\ last.op = "allocate" /\ last.path = "split" /\ last.ret # h[1]
  /\ \E a \in Addrs : mem[a] = FillValue /\ InFreeBlock(a)

\* the words of the whole payload of the block whose payload starts at r
BlockWords(r) == {a \in DOMAIN mem : r <= a /\ a < r + SizeOf(r - HeaderSize)}

(* C11: from the return of a successful allocate until the caller first    *)
(* writes, every payload byte of the returned block (all of the block's    *)
(* size, split or consumed whole) reads as zero, whatever was there.       *)
C11_PayloadZeroed ==
  \A t \in Threads :
     pc[t].op = "use" =>
        /\ SizeOf(pc[t].arg - HeaderSize) >= WordSize
        /\ \A a \in BlockWords(pc[t].arg) : mem[a] = 0

\* a block larger than the request was consumed whole for a caller that has
\* not written yet, while bytes written by callers lie in another block
C11_Witness ==
  /\ last.op = "allocate"
  /\ last.path = "whole"
  /\ \E t \in Threads :
        /\ pc[t] = [op |-> "use", arg |-> last.ret]
        /\ SizeOf(last.ret - HeaderSize) > last.arg
  /\ \E a \in DOMAIN mem : mem[a] = FillValue

(* C12, as claimed (scenario S3): under NextFit on a fresh region of 10000 *)
(* bytes, after allocating A, B, C of 100 bytes and releasing B, the next  *)
(* allocate(100) returns B's payload address.                              *)
C12_ReusesSlotOfB ==
  (allocate = NEXTFIT /\ Len(script.blocks) >= 4) =>
     script.blocks[4] = script.blocks[2]

(* C12, amended: in that scenario the next allocate(100) is served from    *)
(* the cursor's block, the free block that follows C: it returns the       *)
(* address C's payload + 100 + header size, and not B's payload address.   *)
C12_ServedAfterC ==
  (allocate = NEXTFIT /\ Len(script.blocks) >= 4) =>
     /\ script.blocks[1] = Base + HeaderSize
     /\ script.blocks[2] = script.blocks[1] + 100 + HeaderSize
     /\ script.blocks[3] = script.blocks[2] + 100 + HeaderSize
     /\ script.blocks[4] = script.blocks[3] + 100 + HeaderSize
     /\ script.blocks[4] # script.blocks[2]

\* the fourth allocation of the scenario has returned under NextFit
C12_Witness ==
  /\ allocate = NEXTFIT
  /\ Len(script.blocks) = 4
  /\ last.op = "allocate"
  /\ last.ret # NULL

\* the layout of policy law 6, with the cursor on C
Law6Layout ==
  /\ Len(Nodes) = 5
  /\ IsFree(Nodes[1]) /\ SizeOf(Nodes[1]) = 100
  /\ ~IsFree(Nodes[2])
  /\ IsFree(Nodes[3]) /\ SizeOf(Nodes[3]) = 200
  /\ ~IsFree(Nodes[4])
  /\ IsFree(Nodes[5]) /\ SizeOf(Nodes[5]) = 50
  /\ next_node = Nodes[3]

\* the two requests of 40 are what is left of the script
Law6Ready == Len(script.todo) = 2 /\ pc[MainThread] = Idle

(* C20, as claimed: on that layout with the cursor at C, allocate(40) is   *)
(* served by a split of C and the next allocate(40) is served from E.      *)
C20_ThenFromE ==
  allocate = NEXTFIT =>
     /\ Law6Ready => Law6Layout
     /\ Len(script.blocks) >= 6 => script.blocks[6] = script.blocks[3]
     /\ (Len(script.blocks) >= 7 /\ Len(Nodes) >= 5) =>
           script.blocks[7] = Nodes[Len(Nodes)] + HeaderSize

(* C20, amended: on that layout with the cursor at C, allocate(40) is      *)
(* served by a split of C, which leaves C busy with 40 bytes and a free    *)
(* remainder of 128 bytes on which the cursor rests; the next allocate(40) *)
(* is served by a split of that remainder, and E stays free with 50 bytes. *)
C20_ThenFromRemainder ==
  allocate = NEXTFIT =>
     /\ Law6Ready => Law6Layout
     /\ Len(script.blocks) >= 6 =>
           /\ script.blocks[6] = script.blocks[3]
           /\ SizeOf(script.blocks[6] - HeaderSize) = 40
     /\ Len(script.blocks) = 6 =>
           /\ Len(Nodes) = 6
           /\ next_node = Nodes[4]
           /\ IsFree(Nodes[4]) /\ SizeOf(Nodes[4]) = 128
     /\ Len(script.blocks) >= 7 =>
           /\ Len(Nodes) = 7
           /\ script.blocks[7] = script.blocks[6] + 40 + HeaderSize
           /\ script.blocks[7] = Nodes[4] + HeaderSize
           /\ SizeOf(Nodes[4]) = 40
           /\ IsFree(Nodes[5]) /\ SizeOf(Nodes[5]) = 56
           /\ IsFree(Nodes[7]) /\ SizeOf(Nodes[7]) = 50

\* both requests of 40 have been served under next-fit
C20_Witness ==
  /\ allocate = NEXTFIT
  /\ Len(script.blocks) = 7
  /\ script.todo = <<>>
  /\ last.op = "allocate" /\ last.arg = 40 /\ last.path = "split"

----------------------------------------------------------------------------
(* What the laws of the four algorithms speak of *)

OnList(p) == \E i \in 1 .. Len(Nodes) : Nodes[i] = p

\* where the block is on the list
IndexOf(ns, p) == CHOOSE i \in 1 .. Len(ns) : ns[i] = p

\* the blocks in the order a walk from start meets them, wrapping to head
WrapOrder(start) ==
  SubSeq(Nodes, IndexOf(Nodes, start), Len(Nodes)) \o
  SubSeq(Nodes, 1, IndexOf(Nodes, start) - 1)

\* the free blocks of the order that can hold n bytes
Candidates(order, n) ==
  {i \in 1 .. Len(order) : IsFree(order[i]) /\ SizeOf(order[i]) >= n}

\* the first of them in the order, NULL if there is none
FirstIn(order, n) ==
  IF Candidates(order, n) = {} THEN NULL
  ELSE order[CHOOSE i \in Candidates(order, n) :
                \A j \in Candidates(order, n) : i <= j]

\* the block after b on the list that memory m holds, NULL if b is last
SuccessorIn(m, b) ==
  LET ns == Chain(m, linked_list, Fuel)
  IN IF IndexOf(ns, b) = Len(ns) THEN NULL ELSE ns[IndexOf(ns, b) + 1]

\* the single caller is inside allocate(n) under the algorithm
Allocating(alg) ==
  /\ allocate = alg
  /\ status = "run"
  /\ pc[MainThread].op = "allocate"

(* C13: under NextFit, allocate(n) serves the request from the first free  *)
(* block with size >= n in the order that starts at the cursor (at head if *)
(* the cursor is unset) and wraps from the last block to head; the cursor  *)
(* becomes the successor of the chosen block after any split, unset if the *)
(* chosen block is last; when no block fits it returns NULL and leaves the *)
(* cursor and the list as they were.                                       *)
C13_NextFit ==
  (Initialised /\ allocate = NEXTFIT /\ status = "run") =>
    /\ OnList(next_fit_start(next_node))
    /\ \A n \in LawSizes :
         LET r == allocate_next_fit(n)
             b == FirstIn(WrapOrder(next_fit_start(next_node)), n)
         IN /\ r.st = "ok"
            /\ IF b = NULL
               THEN r.ret = NULL /\ r.cur = next_node /\ r.mem = mem
               ELSE /\ r.ret = b + HeaderSize
                    /\ r.mem[b + OffFree] = 0
                    /\ r.cur = SuccessorIn(r.mem, b)

\* a next-fit allocation is in flight whose walk starts in the middle of the
\* list, finds nothing up to the last block and is served before the cursor
C13_Witness ==
  /\ Allocating(NEXTFIT)
  /\ next_node # NULL
  /\ next_node # linked_list
  /\ allocate_next_fit(pc[MainThread].arg).ret # NULL
  /\ allocate_next_fit(pc[MainThread].arg).ret < next_node
  /\ allocate_next_fit(pc[MainThread].arg).path = "split"

\* the block before and the block after b on the list, NULL if there is none
PrevOf(b) == mem[b + OffPrev]

NextOf(b) == mem[b + OffNext]

FreeNeighbour(q) == q # NULL /\ IsFree(q)

\* p is a block of the list that memory m holds
OnListIn(m, p) ==
  \E i \in 1 .. Len(Chain(m, linked_list, Fuel)) :
     Chain(m, linked_list, Fuel)[i] = p

\* the header of the block a caller's pointer belongs to
BlockOf(memory) == memory - HeaderSize

(* C14: in every reachable state the cursor is unset or points to a block  *)
(* on the list, and the release of a live block b leaves it so: when b is  *)
(* merged into a free previous block and the cursor is on b, the cursor    *)
(* moves to b.next; when the free next block is absorbed and the cursor is *)
(* on it (also after the first move), the cursor moves to b.next.next; in  *)
(* every other case the cursor stays.                                      *)
C14_CursorOnList ==
  (Initialised /\ status = "run") =>
    /\ next_node = NULL \/ OnList(next_node)
    /\ \A h \in held[MainThread] :
         LET b == BlockOf(h[1])
             r == deallocate(h[1])
             onB == FreeNeighbour(PrevOf(b)) /\ next_node = b
             onNext == FreeNeighbour(NextOf(b)) /\ next_node = NextOf(b)
         IN /\ r.st = "ok"
            /\ r.cur = NULL \/ OnListIn(r.mem, r.cur)
            /\ (onB /\ ~FreeNeighbour(NextOf(b))) => r.cur = NextOf(b)
            /\ (onB /\ FreeNeighbour(NextOf(b))) => r.cur = NextOf(NextOf(b))
            /\ onNext => r.cur = NextOf(NextOf(b))
            /\ (~onB /\ ~onNext) => r.cur = next_node

\* the release of a block whose two neighbours are free is in flight, with
\* the cursor on the block: both merges happen and each moves the cursor
C14_Witness ==
  /\ status = "run"
  /\ pc[MainThread].op = "deallocate"
  /\ next_node = BlockOf(pc[MainThread].arg)
  /\ FreeNeighbour(PrevOf(next_node))
  /\ FreeNeighbour(NextOf(next_node))
  /\ deallocate(pc[MainThread].arg).path = "merge_both"
  /\ deallocate(pc[MainThread].arg).cur = NextOf(NextOf(next_node))

\* the block of the list a returned pointer belongs to is the i-th
ServedFrom(r, i) == r.ret = Nodes[i] + HeaderSize

(* C15: under BestFit, allocate(n) fails only when no free block has       *)
(* size >= n, and otherwise serves the request from a free block with      *)
(* size >= n of the smallest size among such blocks, the earliest on the   *)
(* list of those that have this size.                                      *)
C15_BestFit ==
  (Initialised /\ allocate = BESTFIT /\ status = "run") =>
    \A n \in LawSizes :
       LET r == allocate_best_fit(n)
           c == Candidates(Nodes, n)
       IN /\ r.st = "ok"
          /\ IF c = {} THEN r.ret = NULL
             ELSE \E i \in c :
                    /\ ServedFrom(r, i)
                    /\ \A j \in c : SizeOf(Nodes[i]) <= SizeOf(Nodes[j])
                    /\ \A j \in c : SizeOf(Nodes[j]) = SizeOf(Nodes[i]) => i <= j

\* a best-fit allocation is in flight with two free blocks of the smallest
\* fitting size on the list and a larger free block as well
C15_Witness ==
  /\ Allocating(BESTFIT)
  /\ \E i, j, k \in Candidates(Nodes, pc[MainThread].arg) :
        /\ i < j
        /\ SizeOf(Nodes[i]) = SizeOf(Nodes[j])
        /\ SizeOf(Nodes[k]) > SizeOf(Nodes[i])
        /\ ServedFrom(allocate_best_fit(pc[MainThread].arg), i)

\* the free blocks of the list
FreeBlocks == {i \in 1 .. Len(Nodes) : IsFree(Nodes[i])}

(* C16: under WorstFit, allocate(n) fails only when no free block has      *)
(* size >= n, and otherwise serves the request from a free block whose     *)
(* size is the largest among all free blocks, the earliest on the list of  *)
(* those that have this size; a largest block of size exactly n serves.    *)
C16_WorstFit ==
  (Initialised /\ allocate = WORSTFIT /\ status = "run") =>
    \A n \in LawSizes :
       LET r == allocate_worst_fit(n)
       IN /\ r.st = "ok"
          /\ IF Candidates(Nodes, n) = {} THEN r.ret = NULL
             ELSE \E i \in FreeBlocks :
                    /\ ServedFrom(r, i)
                    /\ SizeOf(Nodes[i]) >= n
                    /\ \A j \in FreeBlocks : SizeOf(Nodes[j]) <= SizeOf(Nodes[i])
                    /\ \A j \in FreeBlocks :
                         SizeOf(Nodes[j]) = SizeOf(Nodes[i]) => i <= j

\* a worst-fit allocation is in flight with two free blocks of the largest
\* size on the list, which is exactly the size asked for
C16_Witness ==
  /\ Allocating(WORSTFIT)
  /\ \E i, j \in FreeBlocks :
        /\ i < j
        /\ SizeOf(Nodes[i]) = SizeOf(Nodes[j])
        /\ SizeOf(Nodes[i]) = pc[MainThread].arg
        /\ \A k \in FreeBlocks : SizeOf(Nodes[k]) <= SizeOf(Nodes[i])
        /\ ServedFrom(allocate_worst_fit(pc[MainThread].arg), i)

(* C17: allocate_first_fit(n) serves the request from the first free block *)
(* from head with size >= n, wherever the cursor is, returns NULL when     *)
(* there is none, and leaves the cursor as it was.  It is evaluated in     *)
(* every reachable state, also those next-fit has left with a cursor set.  *)
C17_FirstFit ==
  (Initialised /\ status = "run") =>
    \A n \in LawSizes :
       LET r == allocate_first_fit(n)
           b == FirstIn(Nodes, n)
       IN /\ r.st = "ok"
          /\ r.cur = next_node
          /\ r.ret = IF b = NULL THEN NULL ELSE b + HeaderSize

\* a first-fit allocation is in flight with a smaller and a larger free block
\* that fit after the one it is served from
C17_Witness ==
  /\ Allocating(FIRSTFIT)
  /\ \E i, j, k \in Candidates(Nodes, pc[MainThread].arg) :
        /\ i < j /\ i < k
        /\ SizeOf(Nodes[j]) < SizeOf(Nodes[i])
        /\ SizeOf(Nodes[k]) > SizeOf(Nodes[i])
        /\ ServedFrom(allocate_first_fit(pc[MainThread].arg), i)

\* block p is free in memory m
FreeIn(m, p) == m[p + OffFree] # 0

(* C18: when allocate(n) is served from a free block b of size s, then if  *)
(* s - n >= header size + MINIMUM_FREE_BLOCK, b is left busy with size n   *)
(* and a new free block of size s - n - header size stands right after it  *)
(* on the list, before b's old successor; otherwise b is left busy with    *)
(* size s and the list has the same blocks.  The size and the free flag of *)
(* every other block are as before.  Under each of the four algorithms.    *)
C18_SplitLaw ==
  (Initialised /\ allocate \in Algorithms /\ status = "run") =>
    \A n \in LawSizes :
       LET r == allocate_call(allocate, n)
           b == BlockOf(r.ret)
           s == SizeOf(b)
           i == IndexOf(Nodes, b)
           node == b + HeaderSize + n
           after == Chain(r.mem, linked_list, Fuel)
       IN r.ret # NULL =>
            /\ OnList(b) /\ IsFree(b) /\ s >= n
            /\ ~FreeIn(r.mem, b)
            /\ IF s - n >= HeaderSize + MINIMUM_FREE_BLOCK
               THEN /\ r.mem[b + OffSize] = n
                    /\ after = SubSeq(Nodes, 1, i) \o <<node>> \o
                               SubSeq(Nodes, i + 1, Len(Nodes))
                    /\ FreeIn(r.mem, node)
                    /\ r.mem[node + OffSize] = s - n - HeaderSize
                    /\ r.mem[node + OffPrev] = b
                    /\ r.mem[node + OffNext] = NextOf(b)
                    /\ NextOf(b) # NULL => r.mem[NextOf(b) + OffPrev] = node
               ELSE /\ r.mem[b + OffSize] = s
                    /\ after = Nodes
            /\ \A j \in 1 .. Len(Nodes) :
                 j # i => /\ r.mem[Nodes[j] + OffSize] = SizeOf(Nodes[j])
                          /\ FreeIn(r.mem, Nodes[j]) = IsFree(Nodes[j])

\* an allocation is in flight that splits a free block standing between two
\* busy blocks
C18_Witness ==
  /\ status = "run"
  /\ allocate \in Algorithms
  /\ pc[MainThread].op = "allocate"
  /\ LET r == allocate_call(allocate, pc[MainThread].arg)
     IN /\ r.ret # NULL
        /\ r.path = "split"
        /\ PrevOf(BlockOf(r.ret)) # NULL
        /\ NextOf(BlockOf(r.ret)) # NULL
        /\ ~IsFree(NextOf(BlockOf(r.ret)))

(* C19: releasing a live block b takes two blocks off the list when both   *)
(* its neighbours are free, leaving in the previous block's place one free *)
(* block that spans all three; it takes one block off when exactly one     *)
(* neighbour is free, and none when neither is.  The merged block's size   *)
(* is the sum of the merged sizes plus the header size for each block      *)
(* absorbed.                                                               *)
C19_CoalesceLaw ==
  (Initialised /\ status = "run") =>
    \A h \in held[MainThread] :
       LET b == BlockOf(h[1])
           r == deallocate(h[1])
           p == PrevOf(b)
           n == NextOf(b)
           after == Chain(r.mem, linked_list, Fuel)
       IN /\ r.st = "ok"
          /\ OnList(b) /\ ~IsFree(b)
          /\ CASE FreeNeighbour(p) /\ FreeNeighbour(n) ->
                    /\ Len(after) = Len(Nodes) - 2
                    /\ OnListIn(r.mem, p) /\ FreeIn(r.mem, p)
                    /\ ~OnListIn(r.mem, b) /\ ~OnListIn(r.mem, n)
                    /\ r.mem[p + OffSize] =
                         SizeOf(p) + SizeOf(b) + SizeOf(n) + 2 * HeaderSize
                    /\ r.mem[p + OffNext] = NextOf(n)
               [] FreeNeighbour(p) /\ ~FreeNeighbour(n) ->
                    /\ Len(after) = Len(Nodes) - 1
                    /\ OnListIn(r.mem, p) /\ FreeIn(r.mem, p)
                    /\ ~OnListIn(r.mem, b)
                    /\ r.mem[p + OffSize] = SizeOf(p) + SizeOf(b) + HeaderSize
                    /\ r.mem[p + OffNext] = n
               [] ~FreeNeighbour(p) /\ FreeNeighbour(n) ->
                    /\ Len(after) = Len(Nodes) - 1
                    /\ OnListIn(r.mem, b) /\ FreeIn(r.mem, b)
                    /\ ~OnListIn(r.mem, n)
                    /\ r.mem[b + OffSize] = SizeOf(b) + SizeOf(n) + HeaderSize
                    /\ r.mem[b + OffNext] = NextOf(n)
               [] OTHER ->
                    /\ after = Nodes
                    /\ FreeIn(r.mem, b)
                    /\ r.mem[b + OffSize] = SizeOf(b)

\* the release of a block between two free blocks is in flight, on a list
\* that goes on with busy blocks on both sides of the three
C19_Witness ==
  /\ status = "run"
  /\ pc[MainThread].op = "deallocate"
  /\ LET b == BlockOf(pc[MainThread].arg)
     IN /\ FreeNeighbour(PrevOf(b))
        /\ FreeNeighbour(NextOf(b))
        /\ PrevOf(PrevOf(b)) # NULL
        /\ NextOf(NextOf(b)) # NULL
        /\ deallocate(pc[MainThread].arg).path = "merge_both"

----------------------------------------------------------------------------
(* The seven invariants of the data model, each as a predicate of the list *)
(* that memory holds, and what validate() makes of a list.                 *)

\* 1: the head is set and is the start of the region
HeadAtBase == linked_list # NULL /\ linked_list = Base

\* the walk over next pointers from head comes to a last block
ListEnds == WalkEnd(mem, linked_list, Fuel) = "ok"

\* 2: next and prev of every block agree with its neighbours
LinksAgree ==
  \A i \in 1 .. Len(Nodes) :
     /\ NextOf(Nodes[i]) = NULL
        \/ (Valid(NextOf(Nodes[i])) /\ PrevOf(NextOf(Nodes[i])) = Nodes[i])
     /\ PrevOf(Nodes[i]) = NULL
        \/ (Valid(PrevOf(Nodes[i])) /\ NextOf(PrevOf(Nodes[i])) = Nodes[i])

\* 3: every block ends where its successor starts
Tiles ==
  \A i \in 1 .. Len(Nodes) :
     NextOf(Nodes[i]) # NULL =>
       Nodes[i] + HeaderSize + SizeOf(Nodes[i]) = NextOf(Nodes[i])

\* 4: headers and payloads add up to the region
SumIsHeap == SumBlocks(Nodes, 1) = heap_size

\* 5: no two neighbours are both free
NoAdjacentFree ==
  \A i \in 1 .. Len(Nodes) :
     ~(IsFree(Nodes[i]) /\ FreeNeighbour(NextOf(Nodes[i])))

\* 6: every size is positive
SizesPositive == \A i \in 1 .. Len(Nodes) : SizeOf(Nodes[i]) > 0

\* 7: the cursor is unset or on the list
CursorOnList == next_node = NULL \/ OnList(next_node)

\* validate() is in flight
Validating(t) == status = "run" /\ pc[t].op = "validate"

AllSeven ==
  /\ HeadAtBase
  /\ ListEnds /\ LinksAgree
  /\ Tiles
  /\ SumIsHeap
  /\ NoAdjacentFree
  /\ SizesPositive
  /\ CursorOnList

(* C21 as stated: validate() returns normally only on a list on which all  *)
(* seven invariants hold, and aborts on every list that violates one.      *)
C21_ChecksAllSeven ==
  Initialised =>
    /\ validate = "ok" => AllSeven
    /\ ~AllSeven => validate = "abort"

(* C21, amended: validate() checks the links, the sizes and the sum.  It   *)
(* returns normally exactly when the walk from head comes to a last block, *)
(* next and prev of every block agree, every size is positive and headers  *)
(* plus sizes add up to heap_size; it never returns exactly when links and *)
(* sizes pass on a list that goes round a cycle; otherwise it aborts.      *)
(* Adjacent free blocks, a cursor off the list and blocks that do not tile *)
(* the region pass if those checks do.                                     *)
C21_ChecksLinksSizesSum ==
  Initialised =>
    /\ validate = "ok" <=> (ListEnds /\ LinksAgree /\ SizesPositive /\ SumIsHeap)
    /\ validate = "hang" <=> (~ListEnds /\ LinksAgree /\ SizesPositive)
    /\ validate \in {"ok", "hang", "abort"}

\* validate is in flight and is about to return normally on a list with two
\* adjacent free blocks and the cursor off the list
C21_Witness ==
  /\ Validating(MainThread)
  /\ validate = "ok"
  /\ ~NoAdjacentFree
  /\ ~CursorOnList

----------------------------------------------------------------------------
(* The walk of next-fit *)

RECURSIVE next_fit_visits(_, _, _, _, _, _)
\* the blocks the do-while loop of allocate_next_fit examines, in order
next_fit_visits(m, p, posn, head, bytes, fuel) ==
  IF ~Valid(p) \/ fuel = 0 THEN <<>>
  ELSE IF Fits(m, p, bytes) THEN <<p>>
  ELSE LET n == m[p + OffNext]
           q == IF n = NULL THEN head ELSE n
       IN IF q = posn THEN <<p>>
          ELSE <<p>> \o next_fit_visits(m, q, posn, head, bytes, fuel - 1)

Visits(n) ==
  next_fit_visits(mem, next_fit_start(next_node), next_fit_start(next_node),
                  linked_list, n, Fuel)

\* the walk for n bytes examines blocks of the list, none twice, and ends at
\* the first that fits or, having examined every block, back where it started
ScanBounded(n) ==
  LET v == Visits(n)
      f == next_fit_search(next_node, n)
  IN /\ allocate_next_fit(n).st = "ok"
     /\ f.st \in {"found", "none"}
     /\ Len(v) >= 1 /\ Len(v) <= Len(Nodes)
     /\ \A i \in 1 .. Len(v) : OnList(v[i])
     /\ \A i, j \in 1 .. Len(v) : i < j => v[i] # v[j]
     /\ \A i \in 1 .. Len(v) - 1 : ~Fits(mem, v[i], n)
     /\ f.st = "found" => (v[Len(v)] = f.node /\ Fits(mem, f.node, n))
     /\ f.st = "none" => (Len(v) = Len(Nodes) /\ ~Fits(mem, v[Len(v)], n))

(* C22: under NextFit, in every reachable state and for every request, the *)
(* walk of allocate ends: it examines each block of the list at most once  *)
(* and stops at the first block that fits or on coming back to the block   *)
(* it started at, whatever cursor the allocations and releases before have *)
(* left; no call is ever found in a loop that does not end.                *)
C22_NextFitTerminates ==
  /\ pc[MainThread].op # "hung"
  /\ (Initialised /\ allocate = NEXTFIT /\ status = "run") =>
       \A n \in LawSizes : ScanBounded(n)

\* a next-fit allocation is in flight after a release whose merge moved the
\* cursor; the walk starts there, reaches the last block and wraps to head
C22_Witness ==
  /\ Allocating(NEXTFIT)
  /\ last.op = "deallocate"
  /\ last.moved
  /\ next_node # NULL
  /\ Len(Visits(pc[MainThread].arg)) > 1
  /\ Visits(pc[MainThread].arg)[Len(Visits(pc[MainThread].arg))] < next_node

============================================================================
